---- MODULE Spec2Model ----
(***************************************************************************)
(* PyShock: the TShock REST client (pyshock/tshock.py, pyshock/enums.py).  *)
(*                                                                         *)
(* A Python str is modelled as a Text: a sequence of chunks, each chunk    *)
(* either one reserved character ("/", "?", "#", "&", "=", "+", "%", ":",  *)
(* " ") or a run of unreserved characters ("v2", "True", "..").  The       *)
(* conversions of urllib.parse that get_url calls (urljoin, urlencode with *)
(* quote_plus) are computed on Texts as the library computes them on the   *)
(* characters.                                                             *)
(***************************************************************************)
EXTENDS Integers, Sequences, FiniteSets, TLC

\* ------------------------------------------------------------------------
\* Python values
\* ------------------------------------------------------------------------

\* Every Python object is [type, name, value, items]: value is the text of a
\* str (or of an Enum member's value), items the items of a dict.

\* A str object.
PyStr(s) == [type |-> "str", name |-> "", value |-> s, items |-> <<>>]

\* A bool object; str(True) = "True", str(False) = "False".
PyBool(b) ==
    [type |-> "bool", name |-> IF b THEN "True" ELSE "False", value |-> <<>>,
     items |-> <<>>]

\* None.
PyNone == [type |-> "NoneType", name |-> "None", value |-> <<>>, items |-> <<>>]

\* A dict object with the items d.
PyDict(d) == [type |-> "dict", name |-> "", value |-> <<>>, items |-> d]

\* enums.py: class UserLookupType(Enum): ID = "id"; Name = "name"
UserLookupType ==
    { [type |-> "UserLookupType", name |-> "ID", value |-> <<"id">>,
        items |-> <<>>],
      [type |-> "UserLookupType", name |-> "Name", value |-> <<"name">>,
        items |-> <<>>] }

\* enums.py: class BanLookupType(Enum): Name = "name"; IP = "ip"
BanLookupType ==
    { [type |-> "BanLookupType", name |-> "Name", value |-> <<"name">>,
        items |-> <<>>],
      [type |-> "BanLookupType", name |-> "IP", value |-> <<"ip">>,
        items |-> <<>>] }

\* str(obj): a str is itself, a bool its literal, an Enum member "Class.Member".
Str(obj) ==
    CASE obj.type = "str" -> obj.value
      [] obj.type \in {"bool", "NoneType"} -> <<obj.name>>
      [] OTHER -> <<obj.type \o "." \o obj.name>>

\* The outcome of a call: a returned object or a raised exception.
Return(v) == [raised |-> "", msg |-> <<>>, value |-> v]
Raise(exc, m) == [raised |-> exc, msg |-> m, value |-> PyNone]

\* ------------------------------------------------------------------------
\* Text helpers
\* ------------------------------------------------------------------------

\* The first index >= from of a chunk of t that is in S; Len(t) + 1 if none
\* (str.find over a set of delimiters).
RECURSIVE FirstIn(_, _, _)
FirstIn(t, S, from) ==
    IF from > Len(t) THEN Len(t) + 1
    ELSE IF t[from] \in S THEN from
    ELSE FirstIn(t, S, from + 1)

\* sep.join(parts) for a sequence of Texts.
RECURSIVE Join(_, _)
Join(sep, parts) ==
    IF parts = <<>> THEN <<>>
    ELSE IF Len(parts) = 1 THEN parts[1]
    ELSE parts[1] \o <<sep>> \o Join(sep, Tail(parts))

\* t.split(sep): the Texts between the occurrences of the chunk sep.
RECURSIVE Split(_, _)
Split(t, sep) ==
    LET i == FirstIn(t, {sep}, 1)
    IN IF i > Len(t) THEN <<t>>
       ELSE <<SubSeq(t, 1, i - 1)>> \o Split(SubSeq(t, i + 1, Len(t)), sep)

\* ------------------------------------------------------------------------
\* urllib.parse
\* ------------------------------------------------------------------------

\* quote_plus on one chunk: a space becomes "+", every other reserved
\* character its percent-escape, unreserved runs are kept.
QuoteChunk(c) ==
    CASE c = " " -> "+"
      [] c = "&" -> "%26"
      [] c = "=" -> "%3D"
      [] c = "/" -> "%2F"
      [] c = "?" -> "%3F"
      [] c = "#" -> "%23"
      [] c = "+" -> "%2B"
      [] c = "%" -> "%25"
      [] c = ":" -> "%3A"
      [] OTHER -> c

\* quote_plus(s)
QuotePlus(t) == [i \in 1..Len(t) |-> QuoteChunk(t[i])]

\* urlencode(kwargs): quote_plus(str(k)) "=" quote_plus(str(v)) for each item
\* in the mapping's order, joined by "&".  kwargs is a sequence of
\* [k |-> key, v |-> object] with distinct keys.
UrlEncode(kwargs) ==
    Join("&", [i \in 1..Len(kwargs) |->
                 <<QuoteChunk(kwargs[i].k), "=">> \o QuotePlus(Str(kwargs[i].v))])

\* urlsplit(url) for a url that starts with "/" (no scheme of its own): the
\* network location after a leading "//", then the fragment after the first
\* "#", then the query after the first "?".
UrlSplit(url) ==
    LET hasNet == Len(url) >= 2 /\ url[1] = "/" /\ url[2] = "/"
        d == FirstIn(url, {"/", "?", "#"}, 3)
        rest == IF hasNet THEN SubSeq(url, d, Len(url)) ELSE url
        h == FirstIn(rest, {"#"}, 1)
        noFrag == SubSeq(rest, 1, h - 1)
        q == FirstIn(noFrag, {"?"}, 1)
    IN [netloc |-> IF hasNet THEN SubSeq(url, 3, d - 1) ELSE <<>>,
        path |-> SubSeq(noFrag, 1, q - 1),
        query |-> SubSeq(noFrag, q + 1, Len(noFrag)),
        fragment |-> SubSeq(rest, h + 1, Len(rest))]

\* urlunsplit with a scheme and a non-empty network location.
UrlUnsplit(scheme, netloc, path, query, fragment) ==
    <<scheme, ":", "/", "/">> \o netloc
      \o (IF path # <<>> /\ path[1] # "/" THEN <<"/">> ELSE <<>>) \o path
      \o (IF query # <<>> THEN <<"?">> \o query ELSE <<>>)
      \o (IF fragment # <<>> THEN <<"#">> \o fragment ELSE <<>>)

\* The loop of urljoin over the path's segments: ".." pops, "." is skipped.
RECURSIVE ResolveSegments(_, _)
ResolveSegments(segments, resolved) ==
    IF segments = <<>> THEN resolved
    ELSE LET seg == Head(segments)
         IN IF seg = <<"..">>
            THEN ResolveSegments(Tail(segments),
                     IF resolved = <<>> THEN <<>>
                     ELSE SubSeq(resolved, 1, Len(resolved) - 1))
            ELSE IF seg = <<".">>
            THEN ResolveSegments(Tail(segments), resolved)
            ELSE ResolveSegments(Tail(segments), Append(resolved, seg))

\* urljoin(base, url) for base = scheme://bnetloc (empty base path) and a url
\* that starts with "/".
UrlJoin(scheme, bnetloc, url) ==
    LET u == UrlSplit(url)
        segments == Split(u.path, "/")
        resolved == ResolveSegments(segments, <<>>)
        closed == IF segments[Len(segments)] \in {<<".">>, <<"..">>}
                  THEN Append(resolved, <<>>) ELSE resolved
        joined == Join("/", closed)
    IN IF u.netloc # <<>>
       THEN UrlUnsplit(scheme, u.netloc, u.path, u.query, u.fragment)
       ELSE IF u.path = <<>>
       THEN UrlUnsplit(scheme, bnetloc, <<>>, u.query, u.fragment)
       ELSE UrlUnsplit(scheme, bnetloc,
                       IF joined = <<>> THEN <<"/">> ELSE joined,
                       u.query, u.fragment)

\* ------------------------------------------------------------------------
\* Python dict: a sequence of [k |-> key, v |-> object], keys distinct, in
\* insertion order
\* ------------------------------------------------------------------------

Has(d, key) == \E i \in 1..Len(d) : d[i].k = key

Get(d, key) == d[CHOOSE i \in 1..Len(d) : d[i].k = key].v

\* Mutant: a new key goes first.
SetItemFirst(d, key, val) ==
    IF Has(d, key)
    THEN [i \in 1..Len(d) |-> IF d[i].k = key THEN [k |-> key, v |-> val] ELSE d[i]]
    ELSE <<[k |-> key, v |-> val]>> \o d

\* Mutant: a key the mapping already has keeps its value (dict.setdefault).
SetItemDefault(d, key, val) ==
    IF Has(d, key) THEN d ELSE Append(d, [k |-> key, v |-> val])

\* d[key] = val: an existing key keeps its position, a new key goes last.
SetItem(d, key, val) ==
    IF Has(d, key)
    THEN [i \in 1..Len(d) |-> IF d[i].k = key THEN [k |-> key, v |-> val] ELSE d[i]]
    ELSE Append(d, [k |-> key, v |-> val])

KV(key, val) == [k |-> key, v |-> val]

\* A literal path segment or str argument of one unreserved run.
S(x) == PyStr(<<x>>)

\* ------------------------------------------------------------------------
\* RequestBuilder
\* ------------------------------------------------------------------------

\* RequestBuilder.__init__(ip, post)
RequestBuilder(ip_, post_) == [ip |-> ip_, post |-> post_, token |-> PyStr(<<>>)]

\* RequestBuilder.get_url(*args, **kwargs): "/".join(args) raises TypeError
\* on an argument that is not a str; otherwise the URL is
\* urljoin("http://ip:post", "/" + "/".join(args)) + "?" + urlencode(kwargs)
\* with kwargs['token'] set to the stored token.
get_url(self, args, kwargs) ==
    IF \E i \in 1..Len(args) : args[i].type # "str"
    THEN Raise("TypeError", <<"sequence item: expected str instance">>)
    ELSE LET path == <<"/">> \o Join("/", [i \in 1..Len(args) |-> args[i].value])
             params == UrlEncode(SetItem(kwargs, "token", self.token))
         IN Return(PyStr(UrlJoin("http", <<self.ip, ":", ToString(self.post)>>, path)
                           \o <<"?">> \o params))

\* ------------------------------------------------------------------------
\* The server: what one GET can come back with
\* ------------------------------------------------------------------------

Env(status, rest) == <<KV("status", S(status))>> \o rest

Envelopes ==
    { Env("200", <<KV("activeusers", S("Bob"))>>),
      Env("200", <<KV("token", S("T1"))>>),
      Env("200", <<KV("token", PyStr(<<"T", "+", "2">>)), KV("response", S("ok"))>>),
      Env("200", <<>>),
      Env("400", <<KV("response", S("invalid group"))>>),
      Env("400", <<KV("error", S("bad")), KV("token", S("T3"))>>),
      Env("404", <<>>),
      Env("404", <<KV("error", S("gone")), KV("token", S("T4"))>>),
      Env("500", <<KV("error", S("boom"))>>),
      Env("500", <<KV("token", S("T5"))>>),
      Env("403", <<KV("error", S("denied")), KV("token", S("T6"))>>),
      Env("401", <<>>),
      <<KV("response", S("no status"))>> }

\* req.get raises; the body is not JSON; the body is JSON but no object
\* (a list); the body is a JSON object.
Outcomes ==
    { [kind |-> k, body |-> <<>>] : k \in {"get_raises", "not_json", "json_list"} }
      \cup { [kind |-> "json", body |-> e] : e \in Envelopes }

\* ------------------------------------------------------------------------
\* TShock._make_request
\* ------------------------------------------------------------------------

\* The message of the catch-all branch:
\* "Error in request. Server returned status: {0} With error: {1}"
ErrorMessage(status, error) ==
    <<"Error in request. Server returned status: ">> \o Str(status)
      \o <<" With error: ">> \o Str(error)

NotFoundMessage == <<"404 Error. Are you sure the server has REST enabled?">>

\* Mutant: a "400" envelope is raised like any other failure status.
CheckStatus400Raises(results) ==
    IF ~Has(results, "status")
    THEN Raise("KeyError", <<"status">>)
    ELSE IF Get(results, "status") = S("404")
    THEN Raise("ApiException", NotFoundMessage)
    ELSE IF Get(results, "status") \in {S("200")}
    THEN Return(PyDict(results))
    ELSE IF ~Has(results, "error")
    THEN Raise("KeyError", <<"error">>)
    ELSE Raise("ApiException",
               ErrorMessage(Get(results, "status"), Get(results, "error")))

\* Mutant: the "404" test is missing, so "404" falls to the catch-all.
CheckStatusNo404(results) ==
    IF ~Has(results, "status")
    THEN Raise("KeyError", <<"status">>)
    ELSE IF Get(results, "status") \in {S("200"), S("400")}
    THEN Return(PyDict(results))
    ELSE IF ~Has(results, "error")
    THEN Raise("KeyError", <<"error">>)
    ELSE Raise("ApiException",
               ErrorMessage(Get(results, "status"), Get(results, "error")))

\* The status branches of _make_request on the decoded mapping: "404",
\* then "200"/"400", then everything else; the subscripts results['status']
\* and results["error"] raise KeyError on a missing field.
CheckStatus(results) ==
    IF ~Has(results, "status")
    THEN Raise("KeyError", <<"status">>)
    ELSE IF Get(results, "status") = S("404")
    THEN Raise("ApiException", NotFoundMessage)
    ELSE IF Get(results, "status") \in {S("200"), S("400")}
    THEN Return(PyDict(results))
    ELSE IF ~Has(results, "error")
    THEN Raise("KeyError", <<"error">>)
    ELSE Raise("ApiException",
               ErrorMessage(Get(results, "status"), Get(results, "error")))

\* Only req.get is inside the try; res.json() and the subscripts are not.
_make_request(url, o) ==
    IF o.kind = "get_raises"
    THEN Raise("ApiException",
               <<"An error occurred in making the request to the server.">>)
    ELSE IF o.kind = "not_json"
    THEN Raise("ValueError", <<"Expecting value">>)
    ELSE IF o.kind = "json_list"
    THEN Raise("TypeError", <<"list indices must be integers or slices, not str">>)
    ELSE CheckStatus(o.body)

\* ------------------------------------------------------------------------
\* Bounds and input sets
\* ------------------------------------------------------------------------

\* Longest argument list, and most keyword arguments, of a direct get_url call.
MaxSegs == 3
MaxParams == 2

\* Servers a client is constructed for.
IPs == {"1.2.3.4", "localhost"}
Ports == {7878}

\* str arguments of the endpoint methods (names, reasons, commands, ...).
Strs == { <<"Bob">>, <<"x", "&", "y", "=", "z">> }

\* Passwords: get_token puts the password into the path.
Passwords == { <<"pw">>, <<"..">>, <<"p", "#", "w">> }

\* Arguments of a direct get_url call.
SegObjs ==
    { S("v2"), S("server"), S("status"), S(".."), PyStr(<<>>),
      PyStr(<<"a", "?", "b">>) }
Params ==
    { KV("players", PyBool(TRUE)), KV("cmd", PyStr(<<"x", "&", "y">>)),
      KV("token", S("forged")) }

SeqsUpTo(X, n) == UNION { [1..m -> X] : m \in 0..n }

\* Keyword-argument mappings of at most n items with distinct keys.
DictsUpTo(n) ==
    { d \in SeqsUpTo(Params, n) :
        \A i, j \in 1..Len(d) : d[i].k = d[j].k => i = j }

\* The filters argument of get_server_status_v2 (None is treated as {}).
Filters ==
    { <<>>,
      <<KV("nickname", S("Bob"))>>,
      <<KV("token", S("forged"))>>,
      <<KV("group", PyStr(<<"a", " ", "b">>)), KV("token", S("forged"))>> }

\* ------------------------------------------------------------------------
\* State
\* ------------------------------------------------------------------------

VARIABLES
    ip,      \* TShock.ip
    port,    \* TShock.port
    token,   \* TShock.token
    urls,    \* TShock.urls, the RequestBuilder: [ip, post, token]
    call,    \* the call that has just completed: its arguments, the URL
             \* built, the GETs issued, the server's answer, what
             \* _make_request gave and what the method returned or raised;
             \* NoCall once the caller has taken the result
    granted  \* history: the token field of the envelope of the most recent
             \* get_token call that returned normally (NoToken before one)

vars == <<ip, port, token, urls, call, granted>>

NoOutcome == [kind |-> "none", body |-> <<>>]

\* get_url, or _make_request, was not called.
NotCalled == [raised |-> "not called", msg |-> <<>>, value |-> PyNone]

NoToken == [type |-> "none", name |-> "", value |-> <<>>, items |-> <<>>]

NoCall ==
    [method |-> "idle", input |-> <<>>, args |-> <<>>, kwargs |-> <<>>,
     url |-> NotCalled, gets |-> <<>>, outcome |-> NoOutcome,
     made |-> NotCalled, result |-> Return(PyNone)]

\* TShock.__init__(ip, port)
Init ==
    /\ ip \in IPs
    /\ port \in Ports
    /\ token = PyStr(<<>>)
    /\ urls = RequestBuilder(ip, port)
    /\ call = NoCall
    /\ granted = NoToken

\* Mutant: a request that raised is issued a second time.
CalledRetrying(m, input, args, kwargs, o, returns, u, r) ==
    [method |-> m, input |-> input, args |-> args, kwargs |-> kwargs,
     url |-> u,
     gets |-> IF u.raised # "" THEN <<>>
              ELSE IF r.raised # "" THEN <<u.value.value, u.value.value>>
              ELSE <<u.value.value>>,
     outcome |-> IF u.raised = "" THEN o ELSE NoOutcome,
     made |-> IF u.raised = "" THEN r ELSE NotCalled,
     result |-> IF r.raised = "" /\ ~returns THEN Return(PyNone) ELSE r]

\* The record of a call that built u (or raised u) and got r from
\* _make_request; a method without a return statement returns None.
Called(m, input, args, kwargs, o, returns, u, r) ==
    [method |-> m, input |-> input, args |-> args, kwargs |-> kwargs,
     url |-> u,
     gets |-> IF u.raised = "" THEN <<u.value.value>> ELSE <<>>,
     outcome |-> IF u.raised = "" THEN o ELSE NoOutcome,
     made |-> IF u.raised = "" THEN r ELSE NotCalled,
     result |-> IF r.raised = "" /\ ~returns THEN Return(PyNone) ELSE r]

\* self._make_request(u): not reached when building u raised.
Validated(m, input, args, kwargs, o, returns, u) ==
    Called(m, input, args, kwargs, o, returns, u,
           IF u.raised # "" THEN u ELSE _make_request(u.value, o))

\* One method body of the form  [return] self._make_request(self.urls.get_url(
\* *args, **kwargs)): the URL is built, one GET is issued if building did not
\* raise, and the validator's result is returned (returns) or dropped.
Request(m, input, args, kwargs, o, returns) ==
    Validated(m, input, args, kwargs, o, returns, get_url(urls, args, kwargs))

\* Mutant: a token-destruction call that returns also resets the stored token.
EndpointClearing(m, input, args, kwargs, returns) ==
    /\ call.method = "idle"
    /\ \E o \in Outcomes : call' = Request(m, input, args, kwargs, o, returns)
    /\ urls' = IF m \in {"do_destroy_token", "do_destroy_all_tokens"}
                    /\ call'.result.raised = ""
                THEN [urls EXCEPT !.token = PyStr(<<>>)] ELSE urls
    /\ UNCHANGED <<ip, port, token, granted>>

\* An endpoint method that only calls the validator.
Endpoint(m, input, args, kwargs, returns) ==
    /\ call.method = "idle"
    /\ \E o \in Outcomes : call' = Request(m, input, args, kwargs, o, returns)
    /\ UNCHANGED <<ip, port, token, urls, granted>>

\* The call has returned or raised; the caller goes on to its next call.
Idle ==
    /\ call.method # "idle"
    /\ call' = NoCall
    /\ UNCHANGED <<ip, port, token, urls, granted>>

\* A direct call of RequestBuilder.get_url(*args, **kwargs).
urls_get_url ==
    /\ call.method = "idle"
    /\ \E args \in SeqsUpTo(SegObjs, MaxSegs) \ {<<>>}, kwargs \in DictsUpTo(MaxParams) :
         LET u == get_url(urls, args, kwargs)
         IN call' = [method |-> "get_url", input |-> <<>>, args |-> args,
                     kwargs |-> kwargs, url |-> u, gets |-> <<>>,
                     outcome |-> NoOutcome, made |-> NotCalled, result |-> u]
    /\ UNCHANGED <<ip, port, token, urls, granted>>

\* The subscript ["token"] of get_token on the validator's result c.result:
\* KeyError when the envelope has no token.
TokenOf(r) ==
    IF r.raised # "" THEN r
    ELSE IF Has(r.value.items, "token") THEN Return(Get(r.value.items, "token"))
    ELSE Raise("KeyError", <<"token">>)

\* Mutant: the token is obtained but not stored in the builder.
StoreTokenNowhere(c, t) ==
    /\ call' = [c EXCEPT !.result = IF t.raised = "" THEN Return(PyNone) ELSE t]
    /\ urls' = urls
    /\ token' = token
    /\ granted' = IF t.raised = "" THEN Get(c.outcome.body, "token") ELSE granted

\* Mutant: the token is stored in both fields, self.token and self.urls.token.
StoreTokenInBoth(c, t) ==
    /\ call' = [c EXCEPT !.result = IF t.raised = "" THEN Return(PyNone) ELSE t]
    /\ urls' = IF t.raised = "" THEN [urls EXCEPT !.token = t.value] ELSE urls
    /\ token' = IF t.raised = "" THEN t.value ELSE token
    /\ granted' = IF t.raised = "" THEN Get(c.outcome.body, "token") ELSE granted

\* The assignment self.urls.token = t, reached only when t was obtained;
\* self.token is not assigned.
StoreToken(c, t) ==
    /\ call' = [c EXCEPT !.result = IF t.raised = "" THEN Return(PyNone) ELSE t]
    /\ urls' = IF t.raised = "" THEN [urls EXCEPT !.token = t.value] ELSE urls
    /\ token' = token
    /\ granted' = IF t.raised = "" THEN Get(c.outcome.body, "token") ELSE granted

\* TShock.get_token(user, password): stores results["token"]; nothing is
\* stored when the validator raises or the envelope has no token.
get_token ==
    /\ call.method = "idle"
    /\ \E user \in Strs, password \in Passwords, o \in Outcomes :
         LET c == Request("get_token", <<PyStr(user), PyStr(password)>>,
                          <<S("v2"), S("token"), S("create"), PyStr(password)>>,
                          <<KV("username", PyStr(user))>>, o, TRUE)
         IN StoreToken(c, TokenOf(c.result))
    /\ UNCHANGED <<ip, port>>

\* TShock.get_status()
get_status == Endpoint("get_status", <<>>, <<S("status")>>, <<>>, TRUE)

\* try: ... except ApiException: return False; return True
Swallow(c) ==
    [c EXCEPT !.result =
        IF c.result.raised = "ApiException" THEN Return(PyBool(FALSE))
        ELSE IF c.result.raised # "" THEN c.result
        ELSE Return(PyBool(TRUE))]

\* TShock.get_token_status(): only ApiException is caught.
get_token_status ==
    /\ call.method = "idle"
    /\ \E o \in Outcomes :
         call' = Swallow(Request("get_token_status", <<>>, <<S("tokentest")>>, <<>>, o, TRUE))
    /\ UNCHANGED <<ip, port, token, urls, granted>>

\* TShock.get_server_status_v2(players=False, rules=False, filters=None):
\* the filters follow the two explicit keyword arguments.
get_server_status_v2 ==
    \E players \in BOOLEAN, rules \in BOOLEAN, filters \in Filters :
      Endpoint("get_server_status_v2", <<PyBool(players), PyBool(rules)>>,
               <<S("v2"), S("server"), S("status")>>,
               <<KV("players", PyBool(players)), KV("rules", PyBool(rules))>> \o filters,
               TRUE)

\* TShock.get_active_user_list()
get_active_user_list ==
    Endpoint("get_active_user_list", <<>>, <<S("v2"), S("users"), S("activelist")>>,
             <<>>, TRUE)

\* TShock.get_user_info(lookup, user): type=lookup.value
get_user_info ==
    \E lookup \in UserLookupType, user \in Strs :
      Endpoint("get_user_info", <<lookup, PyStr(user)>>,
               <<S("v2"), S("users"), S("read")>>,
               <<KV("type", PyStr(lookup.value)), KV("user", PyStr(user))>>, TRUE)

\* TShock.get_ban_information(lookup, user): type=lookup.value
get_ban_information ==
    \E lookup \in BanLookupType, user \in Strs :
      Endpoint("get_ban_information", <<lookup, PyStr(user)>>,
               <<S("v2"), S("bans"), S("read")>>,
               <<KV("type", PyStr(lookup.value)), KV("ban", PyStr(user))>>, TRUE)

\* TShock.get_ban_list()
get_ban_list ==
    Endpoint("get_ban_list", <<>>, <<S("v2"), S("bans"), S("list")>>, <<>>, TRUE)

\* TShock.get_player_list()
get_player_list ==
    Endpoint("get_player_list", <<>>, <<S("v2"), S("players"), S("list")>>, <<>>, TRUE)

\* TShock.get_player_info(player)
get_player_info ==
    \E player \in Strs :
      Endpoint("get_player_info", <<PyStr(player)>>,
               <<S("v2"), S("players"), S("read")>>,
               <<KV("player", PyStr(player))>>, TRUE)

\* TShock.get_world_info()
get_world_info ==
    Endpoint("get_world_info", <<>>, <<S("world"), S("read")>>, <<>>, TRUE)

\* TShock.get_group_list()
get_group_list ==
    Endpoint("get_group_list", <<>>, <<S("v2"), S("groups"), S("list")>>, <<>>, TRUE)

\* TShock.get_group_info(group)
get_group_info ==
    \E group \in Strs :
      Endpoint("get_group_info", <<PyStr(group)>>,
               <<S("v2"), S("groups"), S("read")>>,
               <<KV("group", PyStr(group))>>, TRUE)

\* TShock.get_server_motd()
get_server_motd ==
    Endpoint("get_server_motd", <<>>, <<S("v3"), S("server"), S("motd")>>, <<>>, TRUE)

\* TShock.get_server_rules()
get_server_rules ==
    Endpoint("get_server_rules", <<>>, <<S("v3"), S("server"), S("rules")>>, <<>>, TRUE)

\* TShock.do_destroy_token(): the stored token is the last path segment, and
\* is not reset.
do_destroy_token ==
    Endpoint("do_destroy_token", <<>>, <<S("token"), S("destroy"), urls.token>>,
             <<>>, FALSE)

\* TShock.do_destroy_all_tokens()
do_destroy_all_tokens ==
    Endpoint("do_destroy_all_tokens", <<>>,
             <<S("v3"), S("token"), S("destroy"), S("all")>>, <<>>, FALSE)

\* TShock.do_server_broadcast(message)
do_server_broadcast ==
    \E message \in Strs :
      Endpoint("do_server_broadcast", <<PyStr(message)>>,
               <<S("v2"), S("server"), S("broadcast")>>,
               <<KV("msg", PyStr(message))>>, FALSE)

\* TShock.do_server_reload()
do_server_reload ==
    Endpoint("do_server_reload", <<>>, <<S("v3"), S("server"), S("reload")>>, <<>>, FALSE)

\* TShock.do_server_off()
do_server_off ==
    Endpoint("do_server_off", <<>>, <<S("v2"), S("server"), S("off")>>, <<>>, FALSE)

\* TShock.do_server_restart()
do_server_restart ==
    Endpoint("do_server_restart", <<>>, <<S("v3"), S("server"), S("restart")>>,
             <<>>, FALSE)

\* TShock.do_server_rawcmd_v2(command)
do_server_rawcmd_v2 ==
    \E command \in Strs :
      Endpoint("do_server_rawcmd_v2", <<PyStr(command)>>,
               <<S("v2"), S("server"), S("rawcmd")>>,
               <<KV("cmd", PyStr(command))>>, TRUE)

\* TShock.do_server_rawcmd_v3(command)
do_server_rawcmd_v3 ==
    \E command \in Strs :
      Endpoint("do_server_rawcmd_v3", <<PyStr(command)>>,
               <<S("v3"), S("server"), S("rawcmd")>>,
               <<KV("cmd", PyStr(command))>>, TRUE)

\* TShock.do_create_ban(ip, name, reason)
do_create_ban ==
    \E banIp \in Strs, name \in Strs, reason \in Strs :
      Endpoint("do_create_ban", <<PyStr(banIp), PyStr(name), PyStr(reason)>>,
               <<S("bans"), S("create")>>,
               <<KV("ip", PyStr(banIp)), KV("name", PyStr(name)),
                 KV("reason", PyStr(reason))>>, FALSE)

\* TShock.do_delete_ban(type, ban): type=type, the Enum member itself
do_delete_ban ==
    \E type \in BanLookupType, ban \in Strs :
      Endpoint("do_delete_ban", <<type, PyStr(ban)>>,
               <<S("v2"), S("bans"), S("destroy")>>,
               <<KV("ban", PyStr(ban)), KV("type", type)>>, FALSE)

\* TShock.do_world_meteor()
do_world_meteor ==
    Endpoint("do_world_meteor", <<>>, <<S("world"), S("meteor")>>, <<>>, FALSE)

\* TShock.do_world_save()
do_world_save ==
    Endpoint("do_world_save", <<>>, <<S("v2"), S("world"), S("save")>>, <<>>, FALSE)

\* TShock.do_world_butcher(killFriendly)
do_world_butcher ==
    \E killFriendly \in BOOLEAN :
      Endpoint("do_world_butcher", <<PyBool(killFriendly)>>,
               <<S("v2"), S("world"), S("butcher")>>,
               <<KV("killfriendly", PyBool(killFriendly))>>, FALSE)

\* TShock.do_kick_player(player, reason)
do_kick_player ==
    \E player \in Strs, reason \in Strs :
      Endpoint("do_kick_player", <<PyStr(player), PyStr(reason)>>,
               <<S("v2"), S("players"), S("kick")>>,
               <<KV("reason", PyStr(reason)), KV("player", PyStr(player))>>, FALSE)

\* TShock.do_ban_player(player, reason)
do_ban_player ==
    \E player \in Strs, reason \in Strs :
      Endpoint("do_ban_player", <<PyStr(player), PyStr(reason)>>,
               <<S("v2"), S("players"), S("ban")>>,
               <<KV("reason", PyStr(reason)), KV("player", PyStr(player))>>, FALSE)

\* TShock.do_kill_player(player, killer)
do_kill_player ==
    \E player \in Strs, killer \in Strs :
      Endpoint("do_kill_player", <<PyStr(player), PyStr(killer)>>,
               <<S("v2"), S("players"), S("kill")>>,
               <<KV("player", PyStr(player)), KV("from", PyStr(killer))>>, FALSE)

\* TShock.do_mute_player(player)
do_mute_player ==
    \E player \in Strs :
      Endpoint("do_mute_player", <<PyStr(player)>>,
               <<S("v2"), S("players"), S("mute")>>,
               <<KV("player", PyStr(player))>>, FALSE)

\* TShock.do_unmute_player(player)
do_unmute_player ==
    \E player \in Strs :
      Endpoint("do_unmute_player", <<PyStr(player)>>,
               <<S("v2"), S("players"), S("unmute")>>,
               <<KV("player", PyStr(player))>>, FALSE)

\* TShock.do_group_delete(group)
do_group_delete ==
    \E group \in Strs :
      Endpoint("do_group_delete", <<PyStr(group)>>,
               <<S("v2"), S("groups"), S("destroy")>>,
               <<KV("group", PyStr(group))>>, FALSE)

\* TShock.do_group_create(group, parent="", permissions="", chatColor="255,255,255")
do_group_create ==
    \E group \in Strs, parent \in {<<>>, <<"Bob">>}, permissions \in {<<>>, <<"x", "&", "y", "=", "z">>},
       chatColor \in {<<"255,255,255">>} :
      Endpoint("do_group_create",
               <<PyStr(group), PyStr(parent), PyStr(permissions), PyStr(chatColor)>>,
               <<S("v2"), S("groups"), S("create")>>,
               <<KV("group", PyStr(group)), KV("parent", PyStr(parent)),
                 KV("permissions", PyStr(permissions)),
                 KV("chatcolor", PyStr(chatColor))>>, FALSE)

\* TShock.set_update_user(user, type, password, group): type=type.value
set_update_user ==
    \E user \in Strs, type \in UserLookupType, password \in {<<"pw">>}, group \in Strs :
      Endpoint("set_update_user",
               <<PyStr(user), type, PyStr(password), PyStr(group)>>,
               <<S("v2"), S("users"), S("update")>>,
               <<KV("user", PyStr(user)), KV("type", PyStr(type.value)),
                 KV("password", PyStr(password)), KV("group", PyStr(group))>>, FALSE)

\* TShock.set_world_bloodmoon(bloodmoon): the bool is passed as a path segment
set_world_bloodmoon ==
    \E bloodmoon \in BOOLEAN :
      Endpoint("set_world_bloodmoon", <<PyBool(bloodmoon)>>,
               <<S("world"), S("bloodmoon"), PyBool(bloodmoon)>>, <<>>, FALSE)

\* TShock.set_world_autosaving(autosave): the bool is passed as a path segment
set_world_autosaving ==
    \E autosave \in BOOLEAN :
      Endpoint("set_world_autosaving", <<PyBool(autosave)>>,
               <<S("v2"), S("world"), S("autosave"), S("state"), PyBool(autosave)>>,
               <<>>, FALSE)

\* None or a str, as the optional arguments of set_group_update.
OptStrs == {PyNone, PyStr(<<"Bob">>)}

\* x if x is not None, else "".
OrEmpty(x) == IF x = PyNone THEN PyStr(<<>>) ELSE x

\* TShock.set_group_update(group, parent=None, chatcolor=None, permissions=None)
set_group_update ==
    \E group \in Strs, parent \in OptStrs, chatcolor \in OptStrs, permissions \in OptStrs :
      Endpoint("set_group_update", <<PyStr(group), parent, chatcolor, permissions>>,
               <<S("v2"), S("groups"), S("update")>>,
               <<KV("group", PyStr(group)), KV("parent", OrEmpty(parent)),
                 KV("chatcolor", OrEmpty(chatcolor)),
                 KV("permissions", OrEmpty(permissions))>>, FALSE)

Next ==
    \/ Idle
    \/ urls_get_url
    \/ get_token
    \/ get_status
    \/ get_token_status
    \/ get_server_status_v2
    \/ get_active_user_list
    \/ get_user_info
    \/ get_ban_information
    \/ get_ban_list
    \/ get_player_list
    \/ get_player_info
    \/ get_world_info
    \/ get_group_list
    \/ get_group_info
    \/ get_server_motd
    \/ get_server_rules
    \/ do_destroy_token
    \/ do_destroy_all_tokens
    \/ do_server_broadcast
    \/ do_server_reload
    \/ do_server_off
    \/ do_server_restart
    \/ do_server_rawcmd_v2
    \/ do_server_rawcmd_v3
    \/ do_create_ban
    \/ do_delete_ban
    \/ do_world_meteor
    \/ do_world_save
    \/ do_world_butcher
    \/ do_kick_player
    \/ do_ban_player
    \/ do_kill_player
    \/ do_mute_player
    \/ do_unmute_player
    \/ do_group_delete
    \/ do_group_create
    \/ set_update_user
    \/ set_world_bloodmoon
    \/ set_world_autosaving
    \/ set_group_update

Spec == Init /\ [][Next]_vars

\* ------------------------------------------------------------------------
\* Properties
\* ------------------------------------------------------------------------

\* The last call issued a GET and the body decoded to a mapping with a
\* status field.
Decoded == call.outcome.kind = "json" /\ Has(call.outcome.body, "status")

StatusOfCall == Get(call.outcome.body, "status")

\* Text t occurs in text m as a run of consecutive chunks.
Mentions(m, t) ==
    \E i \in 1..(Len(m) - Len(t) + 1) : SubSeq(m, i, i + Len(t) - 1) = t

\* C1: an envelope with status "200" or "400" is returned by _make_request
\* as it was decoded, same fields and same values, and nothing is raised.
C1_SoftStatusReturned ==
    (Decoded /\ StatusOfCall \in {S("200"), S("400")})
      => (call.made.raised = "" /\ call.made.value = PyDict(call.outcome.body))

\* C1 witness: a "400" envelope came back from _make_request as a value.
C1_Witness ==
    /\ Decoded
    /\ StatusOfCall = S("400")
    /\ call.made.raised = ""
    /\ Has(call.made.value.items, "response")

\* C2: an envelope whose status is not "200", "400" or "404" makes
\* _make_request raise ApiException, with the status and the error field in
\* its message.
C2_OtherStatusRaisesApiException ==
    (Decoded /\ StatusOfCall \notin {S("200"), S("400"), S("404")})
      => /\ call.made.raised = "ApiException"
         /\ Mentions(call.made.msg, Str(StatusOfCall))
         /\ Has(call.outcome.body, "error")
              => Mentions(call.made.msg, Str(Get(call.outcome.body, "error")))

\* C3: an envelope with status "404" makes _make_request raise the
\* not-found ApiException, whatever other fields it has.
C3_NotFoundRaised ==
    (Decoded /\ StatusOfCall = S("404"))
      => (call.made.raised = "ApiException" /\ call.made.msg = NotFoundMessage)

\* C3 witness: a "404" envelope that also has an error field was raised as
\* not found.
C3_Witness ==
    /\ Decoded
    /\ StatusOfCall = S("404")
    /\ Has(call.outcome.body, "error")
    /\ call.made.raised = "ApiException"

\* C4: a failed GET and a body that is not JSON both reach the caller of
\* _make_request as ApiException.
C4_TransportFailureIsApiException ==
    call.outcome.kind \in {"get_raises", "not_json"}
      => call.made.raised = "ApiException"

\* C5: get_token_status raises nothing: it returns False when _make_request
\* raised and True when it returned.
C5_TokenStatusNeverRaises ==
    (call.method = "get_token_status")
      => /\ call.result.raised = ""
         /\ call.result.value = PyBool(call.made.raised = "")

\* The last index of chunk c in t, 0 if there is none.
RECURSIVE LastIn(_, _, _)
LastIn(t, c, from) ==
    IF from = 0 THEN 0
    ELSE IF t[from] = c THEN from
    ELSE LastIn(t, c, from - 1)

\* What get_url put before and after the "?" it appended: quote_plus leaves
\* no "?" in the query string, so it is the last one of the URL.
BeforeQuery(url) == SubSeq(url, 1, LastIn(url, "?", Len(url)) - 1)
QueryString(url) == SubSeq(url, LastIn(url, "?", Len(url)) + 1, Len(url))

\* The query string's parameters in order, each <<name, value>> as sent.
SplitPair(item) == Split(item, "=")
QueryPairs(url) ==
    [i \in 1..Len(Split(QueryString(url), "&")) |->
        SplitPair(Split(QueryString(url), "&")[i])]

\* A parameter as it is sent: its name and value, each quoted once.
Sent(key, obj) == <<<<QuoteChunk(key)>>, QuotePlus(Str(obj))>>

IsTokenPair(p) == p[1] = <<"token">>

\* http://{host}:{port}
Base == <<"http", ":", "/", "/", ip, ":", ToString(port)>>

\* C6: every URL carries exactly one token parameter: the empty token until
\* a get_token call has succeeded, and from then on the token that the most
\* recent successful get_token call received.
C6_UrlCarriesGrantedToken ==
    [][(call'.method # "idle" /\ call'.url.raised = "")
         => SelectSeq(QueryPairs(call'.url.value.value), IsTokenPair)
              = <<Sent("token", IF granted = NoToken THEN PyStr(<<>>) ELSE granted)>>]_vars

\* C6 witness: after get_token received the token T+2, another method built
\* a URL, and it ends in token=T%2B2.
C6_Witness ==
    /\ call.method = "get_status"
    /\ call.url.raised = ""
    /\ granted = PyStr(<<"T", "+", "2">>)
    /\ SubSeq(call.url.value.value, Len(call.url.value.value) - 4, Len(call.url.value.value))
         = <<"token", "=", "T", "%2B", "2">>

\* C7: the stored token changes only in a get_token call that completes
\* without raising; every other step, the token-destruction calls included,
\* leaves it as it was.
C7_OnlyGetTokenWrites ==
    [][urls'.token # urls.token
         => (call'.method = "get_token" /\ call'.result.raised = "")]_vars

\* C7 witness: do_destroy_token returned and the destroyed token T1 is still
\* the stored one.
C7_Witness ==
    /\ call.method = "do_destroy_token"
    /\ call.result.raised = ""
    /\ urls.token = S("T1")

\* A segment of unreserved characters that is neither "." nor "..".
Plain(seg) ==
    /\ seg.type = "str"
    /\ Len(seg.value) = 1
    /\ seg.value[1] \notin {"/", "?", "#", "&", "=", "+", "%", ":", " ", ".", ".."}

\* "/" seg1 "/" seg2 ... for the segments as they were supplied.
RECURSIVE Slashed(_)
Slashed(args) ==
    IF args = <<>> THEN <<>>
    ELSE <<"/">> \o Head(args).value \o Slashed(Tail(args))

\* The supplied parameters other than token, in the order supplied.
Others(kwargs) == SelectSeq(kwargs, LAMBDA kv : kv.k # "token")

\* The query string the amended C8 describes: the supplied parameters in
\* order, the session token in the place of a supplied token, else last.
ExpectedPairs(kwargs, tok) ==
    IF \E i \in 1..Len(kwargs) : kwargs[i].k = "token"
    THEN [i \in 1..Len(kwargs) |->
            IF kwargs[i].k = "token" THEN Sent("token", tok)
            ELSE Sent(kwargs[i].k, kwargs[i].v)]
    ELSE [i \in 1..Len(kwargs) |-> Sent(kwargs[i].k, kwargs[i].v)]
           \o <<Sent("token", tok)>>

\* The example of the specification, with the query string the code gives.
ExampleUrl ==
    <<"http", ":", "/", "/", "1.2.3.4", ":", "7878", "/", "v2", "/", "server",
      "/", "status", "?", "players", "=", "True", "&", "token", "=">>

IsExample ==
    /\ call.method = "get_url"
    /\ ip = "1.2.3.4"
    /\ urls.token = PyStr(<<>>)
    /\ call.args = <<S("v2"), S("server"), S("status")>>
    /\ call.kwargs = <<KV("players", PyBool(TRUE))>>

\* C8 as claimed: the URL is http://{host}:{port}/ and the segments joined by
\* "/", then "?", then token={token} as the FIRST parameter, then every other
\* supplied parameter once.
C8_TokenFirst ==
    (call.method = "get_url")
      => /\ call.url.raised = ""
         /\ BeforeQuery(call.url.value.value) = Base \o Slashed(call.args)
         /\ QueryPairs(call.url.value.value)[1] = Sent("token", urls.token)
         /\ Len(QueryPairs(call.url.value.value)) = Len(Others(call.kwargs)) + 1
         /\ \A i \in 1..Len(Others(call.kwargs)) :
              \E j \in 2..Len(QueryPairs(call.url.value.value)) :
                QueryPairs(call.url.value.value)[j]
                  = Sent(Others(call.kwargs)[i].k, Others(call.kwargs)[i].v)

\* C8 amended: the query string holds the supplied parameters once each, in
\* the order supplied, with token={token} LAST (in the place of a supplied
\* token parameter if there is one); when every segment is plain, the text
\* before the query is http://{host}:{port} and "/" segment for each segment
\* in order; the example gives ...status?players=True&token=.
C8_TokenLast ==
    (call.method = "get_url")
      => /\ call.url.raised = ""
         /\ QueryPairs(call.url.value.value) = ExpectedPairs(call.kwargs, urls.token)
         /\ (\A i \in 1..Len(call.args) : Plain(call.args[i]))
              => BeforeQuery(call.url.value.value) = Base \o Slashed(call.args)
         /\ IsExample => call.url.value.value = ExampleUrl

\* C8 witness: the example call was made and returned the example URL.
C8_Witness == IsExample /\ call.url.raised = "" /\ call.url.value.value = ExampleUrl

\* The lookup-type argument of the last call.
LookupArg == IF call.method = "set_update_user" THEN call.input[2] ELSE call.input[1]

\* C9: each method that takes a lookup type sends type={the member's value}.
C9_LookupValueSent ==
    (call.method \in {"get_user_info", "get_ban_information", "do_delete_ban",
                      "set_update_user"} /\ call.url.raised = "")
      => \E i \in 1..Len(QueryPairs(call.url.value.value)) :
           QueryPairs(call.url.value.value)[i] = <<<<"type">>, LookupArg.value>>

\* C10: every endpoint method builds its URL and issues the GET; for
\* set_world_bloodmoon(b) and set_world_autosaving(b) the path ends in the
\* literal of b.
C10_EveryEndpointBuildsUrl ==
    (call.method \notin {"idle", "get_url"})
      => /\ call.url.raised = ""
         /\ Len(call.gets) = 1
         /\ call.method = "set_world_bloodmoon"
              => BeforeQuery(call.gets[1])
                   = Base \o <<"/", "world", "/", "bloodmoon", "/", call.input[1].name>>
         /\ call.method = "set_world_autosaving"
              => BeforeQuery(call.gets[1])
                   = Base \o <<"/", "v2", "/", "world", "/", "autosave", "/", "state",
                               "/", call.input[1].name>>

\* C11: a call of an endpoint method issues no GET when building its URL
\* raised and otherwise exactly one, for the URL it built, whatever the GET,
\* the decoding or the status check did and whatever earlier calls returned.
C11_OneGetPerCall ==
    (call.method \notin {"idle", "get_url"})
      => /\ Len(call.gets) <= 1
         /\ call.url.raised # "" => call.gets = <<>>
         /\ call.url.raised = "" => call.gets = <<call.url.value.value>>

\* A token was granted by an earlier call, and this call's one GET failed
\* (in transport, in decoding or in the status check).
C11_Witness ==
    /\ granted # NoToken
    /\ call.method \notin {"idle", "get_url", "get_token"}
    /\ call.made.raised # ""
    /\ call.outcome.kind \in {"get_raises", "not_json", "json"}
    /\ Len(call.gets) = 1

\* The token parameter of the URL the last call built.
TokenSent == SelectSeq(QueryPairs(call.url.value.value), IsTokenPair)

\* C12: TShock.token is the empty string in every state; RequestBuilder.token
\* is the field get_token writes, so once it holds a token the two fields
\* differ and the token parameter sent is not TShock.token.
C12_ClientTokenStaysEmpty ==
    /\ token = PyStr(<<>>)
    /\ granted = NoToken => urls.token = token
    /\ granted # NoToken => urls.token # token
    /\ (granted # NoToken /\ call.method \notin {"idle", "get_token"}
          /\ call.url.raised = "")
         => TokenSent # <<Sent("token", token)>>

\* After a successful get_token a request carries token=T1 while
\* TShock.token is still empty.
C12_Witness ==
    /\ urls.token = S("T1")
    /\ token = PyStr(<<>>)
    /\ call.method = "get_status"
    /\ call.url.raised = ""
    /\ TokenSent = <<Sent("token", S("T1"))>>

\* The caller passed a keyword argument named token and the URL was built.
TokenSupplied ==
    /\ call.method # "idle"
    /\ Has(call.kwargs, "token")
    /\ call.url.raised = ""

\* C13: when the caller supplies a keyword argument named token, the query
\* string get_url builds has one parameter per keyword argument, exactly one
\* of them is named token, its value is the builder's stored token, and the
\* caller's value appears in no parameter.
C13_SuppliedTokenOverwritten ==
    TokenSupplied
      => /\ Len(QueryPairs(call.url.value.value)) = Len(call.kwargs)
         /\ TokenSent = <<Sent("token", urls.token)>>
         /\ \A i \in 1..Len(QueryPairs(call.url.value.value)) :
              QueryPairs(call.url.value.value)[i][2] # Get(call.kwargs, "token").value

\* get_server_status_v2 was given filters with token=forged after T1 was
\* stored, and the URL it requested carries token=T1.
C13_Witness ==
    /\ TokenSupplied
    /\ call.method = "get_server_status_v2"
    /\ Get(call.kwargs, "token") = S("forged")
    /\ urls.token = S("T1")
    /\ call.gets = <<call.url.value.value>>
    /\ TokenSent = <<Sent("token", S("T1"))>>

====
